---- MODULE Spec2Model ----
(***************************************************************************)
(* Model of src/app.py: the trace citation collector                       *)
(* (_collect_citation_uris_from_trace), the streaming relay                *)
(* (invoke_agent_stream_with_citations) and the Streamlit script that      *)
(* consumes it (session state, "New session", suggested prompts, the user  *)
(* turn).                                                                  *)
(*                                                                         *)
(* Text.  A Python str is a sequence of atoms; an atom is "/", " " or a    *)
(* run of characters holding neither.  No two strings of the model differ  *)
(* only in how they are cut into atoms, so equality of sequences is        *)
(* equality of strings.                                                    *)
(*                                                                         *)
(* Values.  A deserialised trace value is a record [tag, s, kids]:         *)
(*   tag = "str"  : a str, s its atoms                                     *)
(*   tag = "num"  : a number, s its one digit atom (only 7 is used)        *)
(*   tag = "none" : None                                                   *)
(*   tag = "dict" : a dict, kids its items [k, v] in insertion order       *)
(*   tag = "list" : a list, kids its elements as [k |-> "", v]             *)
(***************************************************************************)
EXTENDS Integers, Sequences, FiniteSets, TLC

\* ------------------------------------------------------------------ bounds
\* Nesting depth of the generated trace payloads.
MaxDepth == 3
\* Items one agent response delivers at most.
MaxItems == 2
\* User turns held in the history at most.
MaxTurns == 1
\* Session identifiers minted at most.
MaxSessions == 2

\* ------------------------------------------------------------------ values
Str(s) == [tag |-> "str", s |-> s, kids |-> <<>>]
Num7 == [tag |-> "num", s |-> <<"7">>, kids |-> <<>>]
None == [tag |-> "none", s |-> <<>>, kids |-> <<>>]
Dict(items) == [tag |-> "dict", s |-> <<>>, kids |-> items]
List(elems) == [tag |-> "list", s |-> <<>>, kids |-> [i \in 1..Len(elems) |-> [k |-> "", v |-> elems[i]]]]
KV(key, val) == [k |-> key, v |-> val]

EmptyStr == Str(<<>>)
EmptyDict == Dict(<<>>)

\* The URIs of the end-to-end example, and two more.
PolicyUri == <<"s3:", "/", "/", "bucket", "/", "policy.pdf">>
SopUri == <<"s3:", "/", "/", "bucket", "/", "sop.pdf">>
DirUri == <<"s3:", "/", "/", "bucket", "/">>
BareUri == <<"notes.txt">>

\* Python truthiness: bool(x), as `x or {}` and `if uri` use it.
Truthy(x) ==
    CASE x.tag = "str" -> x.s # <<>>
      [] x.tag = "num" -> x.s # <<"0">>
      [] x.tag = "none" -> FALSE
      [] OTHER -> x.kids # <<>>

\* hash(x) succeeds: dict and list are unhashable.
Hashable(x) == x.tag \in {"str", "num", "none"}

\* dict.get(key, default) on a dict value.
DictGet(obj, key, default) ==
    IF \E i \in 1..Len(obj.kids) : obj.kids[i].k = key
    THEN obj.kids[CHOOSE i \in 1..Len(obj.kids) : obj.kids[i].k = key].v
    ELSE default

\* ------------------------------------------------- the citation collector
\* The collector's effect so far: the caller's `seen` set and `uris` list,
\* and the exception that has left the traversal (NoError: none).
NoError == "none"
CollectorState(seen, uris, raised) == [seen |-> seen, uris |-> uris, raised |-> raised]
Raise(st, exc) == IF st.raised = NoError THEN [st EXCEPT !.raised = exc] ELSE st

add_uri_no_dedup(uri, st) ==
    IF st.raised # NoError \/ ~Truthy(uri) THEN st
    ELSE IF ~Hashable(uri) THEN Raise(st, "TypeError")
    ELSE [st EXCEPT !.seen = @ \cup {uri}, !.uris = Append(@, uri)]

\* add_uri: `if uri and uri not in seen: seen.add(uri); uris.append(uri)`.
\* The membership test hashes uri, so a non-empty dict or list raises
\* TypeError; a falsy value short-circuits before it.
add_uri(uri, st) ==
    IF st.raised # NoError \/ ~Truthy(uri) THEN st
    ELSE IF ~Hashable(uri) THEN Raise(st, "TypeError")
    ELSE IF uri \in st.seen THEN st
    ELSE [st EXCEPT !.seen = @ \cup {uri}, !.uris = Append(@, uri)]

\* `x.get(key) or {}` on a dict x.
GetOrEmpty(x, key) ==
    LET v == DictGet(x, key, None) IN IF Truthy(v) THEN v ELSE EmptyDict

\* The three probes of one dict node, lines 39-44, in the code's order.
probes_uri_first(obj, st) ==
    LET loc == GetOrEmpty(obj, "location")
        a == add_uri(DictGet(obj, "uri", EmptyStr), st)
        b == add_uri(DictGet(obj, "s3Uri", EmptyStr), a)
    IN  IF loc.tag # "dict" THEN Raise(b, "AttributeError")
        ELSE LET s3 == GetOrEmpty(loc, "s3Location")
             IN  IF s3.tag # "dict" THEN Raise(b, "AttributeError")
                 ELSE add_uri(DictGet(s3, "uri", EmptyStr), b)

probes(obj, st) ==
    LET loc == GetOrEmpty(obj, "location")
    IN  IF loc.tag # "dict" THEN Raise(st, "AttributeError")
        ELSE LET s3 == GetOrEmpty(loc, "s3Location")
             IN  IF s3.tag # "dict" THEN Raise(st, "AttributeError")
                 ELSE LET a == add_uri(DictGet(s3, "uri", EmptyStr), st)
                          b == add_uri(DictGet(obj, "s3Uri", EmptyStr), a)
                      IN  add_uri(DictGet(obj, "uri", EmptyStr), b)

RECURSIVE walk(_, _)
RECURSIVE walk_each(_, _, _)
\* `for v in obj.values(): walk(v)` / `for it in obj: walk(it)`, from the
\* i-th child on; an exception ends the loop.
walk_each(kids, i, st) ==
    IF st.raised # NoError \/ i > Len(kids) THEN st
    ELSE walk_each(kids, i + 1, walk(kids[i].v, st))

\* walk, lines 37-50.
walk(obj, st) ==
    IF st.raised # NoError THEN st
    ELSE IF obj.tag = "dict" THEN walk_each(obj.kids, 1, probes(obj, st))
    ELSE IF obj.tag = "list" THEN walk_each(obj.kids, 1, st)
    ELSE st

\* _collect_citation_uris_from_trace(trace_obj, seen, uris), lines 29-52.
collect_citation_uris_from_trace(trace_obj, seen, uris) ==
    walk(trace_obj, CollectorState(seen, uris, NoError))

\* ------------------------------------------------------- trace payloads
Keys == {"location", "s3Location", "uri", "s3Uri", "children"}
Leaves == {EmptyStr, Str(PolicyUri), Str(SopUri), Num7, None, EmptyDict, List(<<>>)}

\* Every value of nesting depth <= d built from one-item dicts and
\* one-element lists over Keys and Leaves.
RECURSIVE Nodes(_)
Nodes(d) ==
    IF d = 0 THEN Leaves
    ELSE LET sub == Nodes(d - 1)
         IN  Leaves \cup {Dict(<<KV(k, v)>>) : k \in Keys, v \in sub}
                    \cup {List(<<v>>) : v \in sub}

\* Two-item dicts over the probed keys, in both key orders.
ProbedKeys == {"location", "s3Uri", "uri"}
PairNodes ==
    {Dict(<<KV(p[1], v1), KV(p[2], v2)>>) :
        p \in {q \in ProbedKeys \X ProbedKeys : q[1] # q[2]},
        v1 \in Leaves, v2 \in Leaves}

\* One node exposing any of the three probed fields, in either key order.
LocationOf(x) == Dict(<<KV("s3Location", Dict(<<KV("uri", x)>>))>>)
ProbeNodes ==
    {Dict(<<KV("location", LocationOf(a)), KV("s3Uri", b), KV("uri", c)>>) :
        a \in Leaves, b \in Leaves, c \in Leaves}
    \cup {Dict(<<KV("uri", c), KV("s3Uri", b), KV("location", LocationOf(a))>>) :
        a \in Leaves, b \in Leaves, c \in Leaves}

\* The end-to-end example trace.
ExampleTrace ==
    Dict(<<KV("location", LocationOf(Str(PolicyUri))),
           KV("children", List(<<Dict(<<KV("uri", Str(PolicyUri))>>),
                                 Dict(<<KV("s3Uri", Str(SopUri))>>)>>))>>)
\* A later trace repeating sop.pdf and adding two more documents.
MoreTrace ==
    List(<<Dict(<<KV("uri", Str(SopUri))>>), Dict(<<KV("s3Uri", Str(DirUri))>>),
           Dict(<<KV("uri", Str(BareUri))>>)>>)
\* Wrong-typed values under probed keys.
BadLocationTrace == Dict(<<KV("location", Str(<<"x">>))>>)
NumberUriTrace == Dict(<<KV("uri", Num7)>>)

TraceInputs == Nodes(MaxDepth) \cup PairNodes \cup ProbeNodes \cup {ExampleTrace, MoreTrace}
StreamTraces == {ExampleTrace, MoreTrace, BadLocationTrace, NumberUriTrace}

\* ------------------------------------------------------------- text
\* bytes.decode("utf-8") over the bytes the model uses: an ASCII byte is its
\* character, 0xFF is no UTF-8 and raises UnicodeDecodeError.
Chr(b) == IF b = 97 THEN "a" ELSE IF b = 32 THEN " " ELSE "?"
Utf8Valid(bytes) == \A i \in 1..Len(bytes) : bytes[i] < 128
Utf8Decode(bytes) == [i \in 1..Len(bytes) |-> Chr(bytes[i])]

\* bool(acc.strip()): some character is not whitespace.
NonBlank(text) == \E i \in 1..Len(text) : text[i] # " "

\* _short_name(uri) on a str: uri.split("/")[-1] if uri else uri.
ShortName(uri) ==
    LET cut == {i \in 1..Len(uri) : uri[i] = "/"}
    IN  IF cut = {} THEN uri
        ELSE SubSeq(uri, (CHOOSE i \in cut : \A j \in cut : i >= j) + 1, Len(uri))

\* ------------------------------------------------------ response items
\* One item of response["completion"]: `"chunk" in event` with its bytes,
\* `"trace" in event` with its payload.
Item(has_chunk, bytes, has_trace, trace) ==
    [has_chunk |-> has_chunk, bytes |-> bytes, has_trace |-> has_trace, trace |-> trace]
NoItem == Item(FALSE, <<>>, FALSE, None)

ChunkBytes == {<<97>>, <<32>>, <<255>>}
ChunkOnlyItems == {Item(TRUE, b, FALSE, None) : b \in ChunkBytes}
TraceOnlyItems == {Item(FALSE, <<>>, TRUE, t) : t \in StreamTraces}
BothItems == {Item(TRUE, <<97>>, TRUE, ExampleTrace)}
StreamItems == ChunkOnlyItems \cup TraceOnlyItems \cup BothItems \cup {NoItem}

\* The events the generator yields.
ChunkEvent(text) == [kind |-> "chunk", text |-> text, citations |-> <<>>, trace_events |-> 0]
DoneEvent(cites, n) == [kind |-> "done", text |-> <<>>, citations |-> cites, trace_events |-> n]

\* ------------------------------------------------------- the UI script
\* SUGGESTED_PROMPTS, lines 14-21: the question of each card, one atom each.
SUGGESTED_PROMPTS ==
    << <<"What is the procurement threshold for competitive bidding?">>,
       <<"How many quotations are required for purchases above R10,000?">>,
       <<"What are the approval limits for procurement transactions by role?">>,
       <<"What segregation of duties controls are required in financial processes?">>,
       <<"What are the password complexity requirements?">>,
       <<"What types of leave are available under the HR Policy?">> >>
\* The cards the model presses, and what it types into the chat input.
PressedPrompts == {1}
TypedQuestions == {<<"refund policy?">>}
NoText == <<>>

UserMessage(text) == [role |-> "user", content |-> text, citations |-> <<>>]
AssistantMessage(text, cites) == [role |-> "assistant", content |-> text, citations |-> cites]

VARIABLES
    ss_keys,          \* the keys present in st.session_state
    session_id,       \* st.session_state.session_id: n stands for f"web-{the n-th uuid4}"
    messages,         \* st.session_state.messages
    selected_prompt,  \* st.session_state.selected_prompt (NoText: None)
    uuids,            \* how many uuid4 values have been drawn
    pc,               \* where the current script run stands
    typed_input,      \* what st.chat_input returned (NoText: None)
    user_input, acc, citations, ui_trace_events,   \* locals of the user turn
    placeholder,      \* the text the answer placeholder shows
    status,           \* the label of the st.status widget
    errors,           \* st.error banners shown by this run
    seen, gen_citations, trace_events,  \* locals of the generator
    event,            \* the item the generator's loop holds
    received,         \* the items the response has delivered to this call
    events,           \* the events this call has yielded
    calls,            \* the invoke_agent requests this run has issued
    exc,              \* the exception the call has raised (NoError: none)
    before            \* st.session_state.messages as this run found it

ss == <<ss_keys, session_id, messages, selected_prompt, uuids>>
turn == <<user_input, acc, citations, ui_trace_events, placeholder, status, errors>>
gen == <<seen, gen_citations, trace_events, event, received, events, calls>>
vars == <<ss, pc, typed_input, turn, gen, exc, before>>

Turns == Cardinality({i \in 1..Len(messages) : messages[i].role = "user"})

\* A script run starts: nothing of the previous run's page or locals is left.
FreshRun ==
    /\ user_input' = NoText /\ acc' = NoText /\ citations' = <<>>
    /\ ui_trace_events' = 0 /\ placeholder' = NoText /\ status' = "none"
    /\ errors' = 0 /\ seen' = {} /\ gen_citations' = <<>> /\ trace_events' = 0
    /\ event' = NoItem /\ received' = <<>> /\ events' = <<>> /\ calls' = <<>>
    /\ exc' = NoError /\ before' = messages

Init ==
    /\ ss_keys = {} /\ session_id = 0 /\ messages = <<>> /\ selected_prompt = NoText
    /\ uuids = 0 /\ pc = "idle" /\ typed_input = NoText
    /\ user_input = NoText /\ acc = NoText /\ citations = <<>>
    /\ ui_trace_events = 0 /\ placeholder = NoText /\ status = "none"
    /\ errors = 0 /\ seen = {} /\ gen_citations = <<>> /\ trace_events = 0
    /\ event = NoItem /\ received = <<>> /\ events = <<>> /\ calls = <<>>
    /\ exc = NoError /\ before = <<>>

\* The first run of the script: no widget has been used; the session state
\* defaults, lines 222-227, fill the empty session state.
FirstLoad ==
    /\ pc = "idle" /\ ss_keys = {}
    /\ ss_keys' = {"session_id", "messages", "selected_prompt"}
    /\ uuids' = uuids + 1 /\ session_id' = uuids + 1
    /\ messages' = <<>> /\ selected_prompt' = NoText
    /\ FreshRun /\ UNCHANGED <<pc, typed_input>>

NewSessionKeepHistory ==
    /\ pc = "idle" /\ ss_keys # {} /\ uuids < MaxSessions
    /\ uuids' = uuids + 1 /\ session_id' = uuids + 1
    /\ selected_prompt' = NoText
    /\ FreshRun /\ UNCHANGED <<ss_keys, messages, pc, typed_input>>

\* The "New session" button, lines 173-177, and the rerun it asks for, which
\* finds every key present and no input.
NewSession ==
    /\ pc = "idle" /\ ss_keys # {} /\ uuids < MaxSessions
    /\ uuids' = uuids + 1 /\ session_id' = uuids + 1
    /\ messages' = <<>> /\ selected_prompt' = NoText
    /\ FreshRun /\ UNCHANGED <<ss_keys, pc, typed_input>>

\* A suggested-prompt card is pressed: the run reaches line 151.
SuggestedPrompt ==
    /\ pc = "idle" /\ ss_keys # {} /\ Turns < MaxTurns
    /\ \E i \in PressedPrompts : selected_prompt' = SUGGESTED_PROMPTS[i]
    /\ typed_input' = NoText /\ pc' = "input"
    /\ FreshRun /\ UNCHANGED <<ss_keys, session_id, messages, uuids>>

\* A question is submitted in the chat input: the run reaches line 243.
ChatInput ==
    /\ pc = "idle" /\ ss_keys # {} /\ Turns < MaxTurns
    /\ \E q \in TypedQuestions : typed_input' = q
    /\ pc' = "input"
    /\ FreshRun /\ UNCHANGED ss

\* Lines 245-265: the input of this run is resolved, the pending prompt is
\* consumed, the user entry is appended and the turn's locals are set.
ResolveInput ==
    /\ pc = "input"
    /\ LET input == IF typed_input # NoText THEN typed_input ELSE selected_prompt
       IN  /\ user_input' = input
           /\ selected_prompt' =
                IF selected_prompt # NoText /\ typed_input = NoText THEN NoText
                ELSE selected_prompt
           /\ IF input # NoText
              THEN /\ messages' = Append(messages, UserMessage(input))
                   /\ status' = "Working on it"
                   /\ pc' = "invoke"
              ELSE pc' = "idle" /\ UNCHANGED <<messages, status>>
    /\ UNCHANGED <<ss_keys, session_id, uuids, typed_input, acc, citations,
                   ui_trace_events, placeholder, errors, gen, exc, before>>

\* --------------------------------------------------- the streaming relay
\* The first next() on the generator runs lines 57-69: the client is built
\* and the one invoke_agent request is made, with the turn's question and
\* the session identifier.  It returns the response or raises.
InvokeAgent ==
    /\ pc = "invoke"
    /\ calls' = Append(calls, [question |-> user_input, session |-> session_id])
    /\ seen' = {} /\ gen_citations' = <<>> /\ trace_events' = 0
    /\ \/ pc' = "loop" /\ UNCHANGED exc
       \/ pc' = "except" /\ exc' = "RequestError"
    /\ UNCHANGED <<ss, typed_input, turn, event, received, events, before>>

\* Lines 72-73 for the item the loop has just taken: a chunk is decoded and
\* yielded, and the generator is suspended there.
YieldChunk(it) ==
    IF it.has_chunk
    THEN IF Utf8Valid(it.bytes)
         THEN /\ events' = Append(events, ChunkEvent(Utf8Decode(it.bytes)))
              /\ pc' = "chunk"
              /\ UNCHANGED exc
         ELSE /\ pc' = "except" /\ exc' = "UnicodeDecodeError" /\ UNCHANGED events
    ELSE /\ pc' = "trace" /\ UNCHANGED <<events, exc>>

\* Line 71: the response delivers its next item, one of `items`.
DeliverItem(items) ==
    /\ pc = "loop" /\ Len(received) < MaxItems
    /\ \E it \in items :
        /\ event' = it
        /\ received' = Append(received, it)
        /\ YieldChunk(it)
    /\ UNCHANGED <<ss, typed_input, turn, seen, gen_citations, trace_events, calls, before>>

NextItem == DeliverItem(StreamItems)

\* Line 71: the event stream raises instead of delivering.
StreamError ==
    /\ pc = "loop"
    /\ pc' = "except" /\ exc' = "EventStreamError"
    /\ UNCHANGED <<ss, typed_input, turn, gen, before>>

\* The payload of line 79.
Done == DoneEvent(gen_citations, trace_events)

\* Lines 71 and 79: the response is exhausted and the done event is yielded.
EndOfStream ==
    /\ pc = "loop"
    /\ events' = Append(events, Done)
    /\ pc' = "done"
    /\ UNCHANGED <<ss, typed_input, turn, seen, gen_citations, trace_events,
                   event, received, calls, exc, before>>

\* acc += payload, line 275.
Accumulate(text, payload) == text \o payload

\* Lines 271-276: the script takes the chunk and shows the answer so far;
\* its next() resumes the generator at line 75.
HandleChunk ==
    /\ pc = "chunk"
    /\ acc' = Accumulate(acc, events[Len(events)].text)
    /\ placeholder' = acc'
    /\ pc' = "trace"
    /\ UNCHANGED <<ss, typed_input, user_input, citations, ui_trace_events,
                   status, errors, gen, exc, before>>

ProcessTraceYieldsDone ==
    /\ pc = "trace"
    /\ IF event.has_trace
       THEN LET st == collect_citation_uris_from_trace(event.trace, seen, gen_citations)
            IN  /\ trace_events' = trace_events + 1
                /\ seen' = st.seen /\ gen_citations' = st.uris
                /\ exc' = st.raised
                /\ events' = Append(events, DoneEvent(st.uris, trace_events + 1))
                /\ pc' = IF st.raised # NoError THEN "except" ELSE "loop"
       ELSE /\ pc' = "loop" /\ UNCHANGED <<seen, gen_citations, trace_events, exc, events>>
    /\ UNCHANGED <<ss, typed_input, turn, event, received, calls, before>>

\* Lines 75-77: a trace payload is counted and collected from; an exception
\* of the collector leaves the generator.
ProcessTrace ==
    /\ pc = "trace"
    /\ IF event.has_trace
       THEN LET st == collect_citation_uris_from_trace(event.trace, seen, gen_citations)
            IN  /\ trace_events' = trace_events + 1
                /\ seen' = st.seen /\ gen_citations' = st.uris
                /\ exc' = st.raised
                /\ pc' = IF st.raised # NoError THEN "except" ELSE "loop"
       ELSE /\ pc' = "loop" /\ UNCHANGED <<seen, gen_citations, trace_events, exc>>
    /\ UNCHANGED <<ss, typed_input, turn, event, received, events, calls, before>>

\* Lines 278-280: the script takes the done event; its next() ends the
\* generator and the for loop.
HandleDone ==
    /\ pc = "done"
    /\ citations' = events[Len(events)].citations
    /\ ui_trace_events' = events[Len(events)].trace_events
    /\ pc' = "finish"
    /\ UNCHANGED <<ss, typed_input, user_input, acc, placeholder, status, errors,
                   gen, exc, before>>

HandleExceptionKeepAnswer ==
    /\ pc = "except"
    /\ status' = "Failed" /\ errors' = errors + 1
    /\ pc' = "finish"
    /\ UNCHANGED <<ss, typed_input, user_input, acc, citations, ui_trace_events,
                   placeholder, gen, exc, before>>

HandleExceptionRetries ==
    /\ pc = "except"
    /\ status' = "Failed" /\ errors' = errors + 1
    /\ acc' = NoText
    /\ pc' = "invoke"
    /\ UNCHANGED <<ss, typed_input, user_input, citations, ui_trace_events,
                   placeholder, gen, exc, before>>

\* Lines 282-291: the exception of the call is reported and the answer
\* dropped; the placeholder is not written.
HandleException ==
    /\ pc = "except"
    /\ status' = "Failed" /\ errors' = errors + 1
    /\ acc' = NoText
    /\ pc' = "finish"
    /\ UNCHANGED <<ss, typed_input, user_input, citations, ui_trace_events,
                   placeholder, gen, exc, before>>

ShortCitesAll(cites) == [i \in 1..Len(cites) |-> ShortName(cites[i].s)]

\* short_cites, lines 298-300, when every cited value is a str.
ShortCites(cites) ==
    LET first == SubSeq(cites, 1, IF Len(cites) < 2 THEN Len(cites) ELSE 2)
    IN  [i \in 1..Len(first) |-> ShortName(first[i].s)]

\* _short_name raises AttributeError on a truthy value that is no str.
ShortCitesRaises(cites) ==
    \E i \in 1..Len(cites) : i <= 2 /\ cites[i].tag # "str"

FinishTurnAlways ==
    /\ pc = "finish"
    /\ status' = IF NonBlank(acc) THEN "Done" ELSE "No response returned"
    /\ messages' = IF ShortCitesRaises(citations) THEN messages
                   ELSE Append(messages, AssistantMessage(acc, ShortCites(citations)))
    /\ pc' = "idle"
    /\ UNCHANGED <<ss_keys, session_id, selected_prompt, uuids, typed_input,
                   user_input, acc, citations, ui_trace_events, placeholder,
                   errors, gen, exc, before>>

\* Lines 293-306: the status is settled, the short citations are computed
\* and a non-blank answer is appended to the history.  An exception of
\* _short_name ends the run before the append.
FinishTurn ==
    /\ pc = "finish"
    /\ status' = IF NonBlank(acc) THEN "Done" ELSE "No response returned"
    /\ messages' = IF ~ShortCitesRaises(citations) /\ NonBlank(acc)
                   THEN Append(messages, AssistantMessage(acc, ShortCites(citations)))
                   ELSE messages
    /\ pc' = "idle"
    /\ UNCHANGED <<ss_keys, session_id, selected_prompt, uuids, typed_input,
                   user_input, acc, citations, ui_trace_events, placeholder,
                   errors, gen, exc, before>>

Next ==
    \/ FirstLoad \/ NewSession \/ SuggestedPrompt \/ ChatInput \/ ResolveInput
    \/ InvokeAgent \/ NextItem \/ StreamError \/ EndOfStream
    \/ HandleChunk \/ ProcessTrace \/ HandleDone \/ HandleException \/ FinishTurn

Spec == Init /\ [][Next]_vars

\* The collector on every generated payload: a call has just taken a
\* trace-only first item carrying any payload of TraceInputs; later items
\* carry the payloads of StreamTraces.
InitCollect ==
    /\ ss_keys = {"session_id", "messages", "selected_prompt"}
    /\ session_id = 1 /\ uuids = 1 /\ selected_prompt = NoText
    /\ typed_input \in TypedQuestions /\ user_input = typed_input
    /\ messages = <<UserMessage(user_input)>>
    /\ acc = NoText /\ citations = <<>> /\ ui_trace_events = 0
    /\ placeholder = NoText /\ status = "Working on it" /\ errors = 0
    /\ seen = {} /\ gen_citations = <<>> /\ trace_events = 0
    /\ event \in {Item(FALSE, <<>>, TRUE, t) : t \in TraceInputs}
    /\ received = <<event>> /\ events = <<>>
    /\ calls = <<[question |-> user_input, session |-> session_id]>>
    /\ exc = NoError /\ before = <<>>
    /\ pc = "trace"

NextTraceItem == DeliverItem(TraceOnlyItems)

NextCollect == ProcessTrace \/ NextTraceItem \/ EndOfStream

SpecCollect == InitCollect /\ [][NextCollect]_vars

\* ================================================================ claims
DoneCount == Cardinality({i \in 1..Len(events) : events[i].kind = "done"})
\* The call of this run has ended: its generator is exhausted or has raised.
CallOver == pc \in {"finish", "idle"} /\ calls # <<>>

\* C1 as stated: every call, failed or not, produces exactly one done event,
\* and it is the last event of the call.
C1_ExactlyOneDoneEvenOnFailure ==
    CallOver => /\ DoneCount = 1
                /\ events[Len(events)].kind = "done"

\* C1, amended: a call produces at most one done event, nothing follows it
\* (so no chunk does), and an ended call has produced it exactly when the
\* call raised no exception; a call that raised has produced none.
C1_DoneOnceLastUnlessRaised ==
    /\ DoneCount <= 1
    /\ \A i \in 1..Len(events) : events[i].kind = "done" => i = Len(events)
    /\ CallOver => (DoneCount = 1 <=> exc = NoError)

\* A call that delivered two chunks and ended with its done event.
C1_Witness ==
    /\ CallOver /\ exc = NoError /\ Len(events) = 3
    /\ events[1].kind = "chunk" /\ events[2].kind = "chunk" /\ events[3].kind = "done"

\* C2: the collector never fails, whatever the payload, and an empty dict or
\* an empty list adds nothing.
C2_CollectorNeverFails ==
    /\ exc \notin {"AttributeError", "TypeError"}
    /\ (pc = "loop" /\ Len(received) = 1 /\ received[1].trace \in {EmptyDict, List(<<>>)})
           => gen_citations = <<>>

\* The order of discovery, written as a flattening: at a dict the values of
\* its three fields (location.s3Location.uri, s3Uri, uri; the empty string
\* when a field or a step of the chain is missing) and then what its values
\* hold, in key order; at a list what its elements hold, in order.
LocationUri(obj) ==
    LET loc == DictGet(obj, "location", None)
        s3 == IF loc.tag = "dict" THEN DictGet(loc, "s3Location", None) ELSE None
    IN  IF s3.tag = "dict" THEN DictGet(s3, "uri", EmptyStr) ELSE EmptyStr

RECURSIVE Discovery(_)
RECURSIVE DiscoveryOfKids(_, _)
DiscoveryOfKids(kids, i) ==
    IF i > Len(kids) THEN <<>> ELSE Discovery(kids[i].v) \o DiscoveryOfKids(kids, i + 1)

Discovery(node) ==
    IF node.tag = "dict"
    THEN <<LocationUri(node), DictGet(node, "s3Uri", EmptyStr), DictGet(node, "uri", EmptyStr)>>
         \o DiscoveryOfKids(node.kids, 1)
    ELSE IF node.tag = "list" THEN DiscoveryOfKids(node.kids, 1)
    ELSE <<>>

\* The truthy elements of a sequence, each at its first occurrence only.
RECURSIVE FirstOccurrencesFrom(_, _)
FirstOccurrencesFrom(seq, i) ==
    IF i > Len(seq) THEN <<>>
    ELSE IF Truthy(seq[i]) /\ \A j \in 1..(i - 1) : seq[j] # seq[i]
         THEN <<seq[i]>> \o FirstOccurrencesFrom(seq, i + 1)
         ELSE FirstOccurrencesFrom(seq, i + 1)
FirstOccurrences(seq) == FirstOccurrencesFrom(seq, 1)

IndexOf(seq, x) == CHOOSE i \in 1..Len(seq) : seq[i] = x
Occurs(seq, x) == \E i \in 1..Len(seq) : seq[i] = x

\* C3: after the first payload of a call has been collected from, the list
\* holds the discovered URIs in depth-first first-discovery order, probes
\* before children; a node with location.s3Location.uri and a different
\* sibling uri yields both, the nested one first; the example trace yields
\* exactly [policy.pdf, sop.pdf].
C3_DepthFirstDiscoveryOrder ==
    (pc = "loop" /\ Len(received) = 1 /\ received[1].has_trace) =>
        LET t == received[1].trace
            a == LocationUri(t)
            b == DictGet(t, "uri", EmptyStr)
        IN  /\ gen_citations = FirstOccurrences(Discovery(t))
            /\ (t.tag = "dict" /\ Truthy(a) /\ Truthy(b) /\ a # b) =>
                   /\ Occurs(gen_citations, a) /\ Occurs(gen_citations, b)
                   /\ IndexOf(gen_citations, a) < IndexOf(gen_citations, b)
            /\ t = ExampleTrace => gen_citations = <<Str(PolicyUri), Str(SopUri)>>

\* The example trace has been collected from.
C3_Witness ==
    /\ pc = "loop" /\ Len(received) = 1 /\ received[1].has_trace
    /\ received[1].trace = ExampleTrace
    /\ gen_citations = <<Str(PolicyUri), Str(SopUri)>>

NoDuplicates(seq) == \A i, j \in 1..Len(seq) : i # j => seq[i] # seq[j]
NoEmptyString(seq) == \A i \in 1..Len(seq) : seq[i] # EmptyStr
IsPrefix(a, b) == Len(a) <= Len(b) /\ SubSeq(b, 1, Len(a)) = a
InCall == pc \in {"loop", "chunk", "trace", "done"}

C4_ListIsClean ==
    /\ NoDuplicates(gen_citations) /\ NoEmptyString(gen_citations)
    /\ NoDuplicates(citations) /\ NoEmptyString(citations)
    /\ \A i \in 1..Len(events) :
           NoDuplicates(events[i].citations) /\ NoEmptyString(events[i].citations)

\* C4: within one call the citation list, at every point and in the done
\* event, holds no value twice and no empty string, and it only grows at
\* its end: a listed URI keeps its position and is never added again.
C4_NoDuplicateStableOrder ==
    /\ []C4_ListIsClean
    /\ [][InCall => IsPrefix(gen_citations, gen_citations')]_vars

\* A second trace event repeated sop.pdf and added two documents.
C4_Witness ==
    /\ pc = "loop" /\ trace_events = 2
    /\ gen_citations = <<Str(PolicyUri), Str(SopUri), Str(DirUri), Str(BareUri)>>

\* The texts of the chunk events among evs, concatenated in order.
RECURSIVE ChunkText(_, _)
ChunkText(evs, i) ==
    IF i > Len(evs) THEN NoText
    ELSE (IF evs[i].kind = "chunk" THEN evs[i].text ELSE NoText) \o ChunkText(evs, i + 1)

\* This run appended an assistant entry.
AssistantAppended == Len(messages) = Len(before) + 2
TurnOver == pc = "idle" /\ user_input # NoText

\* C5 as stated: a failed call leaves the turn history as the turn found it.
C5_HistoryUnchangedByFailedTurn ==
    (TurnOver /\ exc # NoError) => messages = before

\* C5, amended: a failed call, at the request or later in the stream, adds
\* nothing to the turn history but the user entry of the question, which was
\* appended before the call: no assistant entry, no partial answer.
C5_OnlyUserEntryOnFailure ==
    exc # NoError => messages = Append(before, UserMessage(user_input))

\* The stream failed after a chunk had been rendered, and the run has ended.
C5_Witness ==
    /\ TurnOver /\ exc = "EventStreamError"
    /\ placeholder # NoText /\ Len(messages) = Len(before) + 1

\* What the payloads received by this call expose.
DiscoveredIn(t) == LET d == Discovery(t) IN {d[i] : i \in 1..Len(d)}
Discovered ==
    UNION {DiscoveredIn(received[k].trace) :
              k \in {j \in 1..Len(received) : received[j].has_trace}}
Elements(seq) == {seq[i] : i \in 1..Len(seq)}

\* label is the final path segment of uri.
IsFinalSegment(label, uri) ==
    /\ \A i \in 1..Len(label) : label[i] # "/"
    /\ \E k \in 0..Len(uri) :
           /\ k = 0 \/ uri[k] = "/"
           /\ SubSeq(uri, k + 1, Len(uri)) = label

\* C6: the done event carries every discovered URI once, however many; an
\* assistant entry of the history carries at most two labels, the final
\* path segments of the first two citations of its turn's done event.
C6_FullListInDoneTwoLabelsInHistory ==
    /\ DoneCount > 0 =>
           LET all == {u \in Discovered : Truthy(u)}
           IN  \A i \in 1..Len(events) : events[i].kind = "done" =>
                   /\ Elements(events[i].citations) = all
                   /\ NoDuplicates(events[i].citations)
    /\ \A i \in 1..Len(messages) : Len(messages[i].citations) <= 2
    /\ (TurnOver /\ AssistantAppended) =>
           /\ DoneCount = 1
           /\ LET d == events[Len(events)].citations
                  c == messages[Len(messages)].citations
              IN  /\ Len(c) = (IF Len(d) < 2 THEN Len(d) ELSE 2)
                  /\ \A i \in 1..Len(c) : IsFinalSegment(c[i], d[i].s)

\* Four citations were reported and two labels stored.
C6_Witness ==
    /\ TurnOver /\ AssistantAppended /\ DoneCount = 1
    /\ Len(events[Len(events)].citations) = 4
    /\ messages[Len(messages)].citations = << <<"policy.pdf">>, <<"sop.pdf">> >>

\* The decoded fragments of the items received, in order.
RECURSIVE Fragments(_, _)
Fragments(items, i) ==
    IF i > Len(items) THEN <<>>
    ELSE (IF items[i].has_chunk /\ Utf8Valid(items[i].bytes)
          THEN <<Utf8Decode(items[i].bytes)>> ELSE <<>>) \o Fragments(items, i + 1)
RECURSIVE ChunkTexts(_, _)
ChunkTexts(evs, i) ==
    IF i > Len(evs) THEN <<>>
    ELSE (IF evs[i].kind = "chunk" THEN <<evs[i].text>> ELSE <<>>) \o ChunkTexts(evs, i + 1)
TraceItems == Cardinality({i \in 1..Len(received) : received[i].has_trace})
\* The request itself failed: the call, the event stream or a chunk's bytes.
RequestFailed == exc \in {"RequestError", "EventStreamError", "UnicodeDecodeError"}

\* C7: whatever items the agent returns, each fragment is a chunk event as
\* soon as its item is reached, in order, and the done event counts the
\* items that carried a trace payload.
C7_ChunkPerFragmentAndTraceCount ==
    /\ ChunkTexts(events, 1) = Fragments(received, 1)
    /\ (CallOver /\ ~RequestFailed) =>
           /\ DoneCount = 1
           /\ events[Len(events)].trace_events = TraceItems

C8_SessionIdSet == ss_keys # {} => session_id \in 1..uuids

\* C8: the session identifier is set when absent and afterwards changes only
\* with the New session step, which mints an identifier never used before,
\* empties the history and clears the pending prompt; any other step keeps
\* the identifier and only appends to the history.
C8_SessionFrame ==
    /\ []C8_SessionIdSet
    /\ [][/\ session_id' # session_id =>
                \/ ss_keys = {} /\ "session_id" \in ss_keys'
                \/ /\ ss_keys # {} /\ pc = "idle"
                   /\ session_id' \notin 0..uuids
                   /\ messages' = <<>> /\ selected_prompt' = NoText
          /\ session_id' = session_id => IsPrefix(messages, messages')]_vars

\* New session has replaced the identifier and emptied a history that held
\* a turn.
C8_Witness == session_id = 2 /\ messages = <<>> /\ before # <<>> /\ pc = "idle"

C9_OneCall ==
    /\ Len(calls) <= 1
    /\ (pc \in {"loop", "chunk", "trace", "done", "except", "finish"} \/ TurnOver) =>
           calls = <<[question |-> user_input, session |-> session_id]>>
    /\ errors <= 1
    /\ errors = 1 <=> (exc # NoError /\ pc \in {"finish", "idle"})
    /\ exc # NoError => placeholder = ChunkText(events, 1)

\* C9: a turn issues exactly one request, with its question and the session
\* identifier; a failure is reported once, after it nothing more is
\* requested or consumed, and the text shown so far stays.
C9_SingleCallNoRetry ==
    /\ []C9_OneCall
    /\ [][(exc # NoError /\ pc # "idle") =>
             /\ calls' = calls /\ events' = events /\ received' = received
             /\ placeholder' = placeholder]_vars

\* Two chunks were shown, then the call failed and was reported once.
C9_Witness ==
    /\ pc = "idle" /\ errors = 1 /\ Len(calls) = 1
    /\ Len(events) = 2 /\ placeholder = <<"a", "a">>

\* C10: an assistant entry follows the user entry of its turn, is non-blank
\* and is the concatenation of the turn's chunk texts; a turn whose answer
\* is blank appends the user entry alone.
C10_AssistantEntryIsTheAnswer ==
    /\ \A i \in 1..Len(messages) : messages[i].role = "assistant" =>
           /\ i > 1 /\ messages[i - 1].role = "user"
           /\ NonBlank(messages[i].content)
    /\ TurnOver =>
           LET answer == ChunkText(events, 1)
           IN  /\ IsPrefix(Append(before, UserMessage(user_input)), messages)
               /\ Len(messages) <= Len(before) + 2
               /\ AssistantAppended =>
                      /\ messages[Len(messages)].role = "assistant"
                      /\ messages[Len(messages)].content = answer
               /\ ~NonBlank(answer) => ~AssistantAppended

\* A whitespace-only answer with citations in its done event: the user
\* entry alone was appended.
C10_Witness ==
    /\ TurnOver /\ exc = NoError /\ DoneCount = 1
    /\ ChunkText(events, 1) = <<" ">>
    /\ events[Len(events)].citations # <<>>
    /\ messages = Append(before, UserMessage(user_input))

====
